---- MODULE Spec2Model ----
(***************************************************************************)
(* Model of the cull / deepsweep deletion tool: pattern matching,          *)
(* traversal, exclusion, the worklist, and the per-item deletion state     *)
(* machine of DeletionEngine, driven by main() of the CLI.                 *)
(*                                                                         *)
(* Strings are sequences of one-character strings, so that substring,      *)
(* basename, glob and regular-expression matching and the code-unit        *)
(* order of Array.prototype.sort are computed as the code computes them.   *)
(* A filesystem is a function from entry paths (sequences of names) to     *)
(* "file" or "dir".                                                        *)
(***************************************************************************)
EXTENDS Integers, Sequences, FiniteSets, TLC

\* ------------------------------------------------------------------ bounds

\* Largest --depth value drawn for a run.
MaxDepthOpt == 2

\* Number of collect/process rounds a driver performs on one engine in SpecRerun.
MaxRounds == 2

\* Number of consecutive collectItemsToDelete calls of one round in SpecRecollect.
MaxCollects == 2

\* Longest name given to matchesPattern on its own.
MaxNameLen == 3

\* Longest exclusion list given to shouldExclude on its own.
MaxExcludes == 2

\* ------------------------------------------------------------------- state

VARIABLES
    fs,               \* the filesystem under the working directory
    fs0,              \* the filesystem when the run started
    locked,           \* entries whose removal raises a filesystem error
    unreadable,       \* directories whose listing raises a filesystem error
    formatOpt,        \* the --format value given on the command line
    config,           \* the Config built from the command line
    pc,               \* position of main()
    itemsToDelete,    \* DeletionEngine.itemsToDelete
    deletedItems,     \* DeletionEngine.deletedItems
    failedDeletions,  \* DeletionEngine.failedDeletions
    idx,              \* position of the for loop of processDeletions
    log,              \* what the run has printed, asked and removed so far
    previewShown,     \* the listings printed by displayPreview
    exitCode,         \* argument of process.exit, -1 while running
    round,            \* collect/process rounds completed on this engine
    collects,         \* collectItemsToDelete calls made in this round
    firstItems,       \* itemsToDelete before the latest collectItemsToDelete
    probe             \* a single call of a utility function: arguments and result

vars == <<fs, fs0, locked, unreadable, formatOpt, config, pc, itemsToDelete,
          deletedItems, failedDeletions, idx, log, previewShown, exitCode,
          round, collects, firstItems, probe>>

\* What no step of a run changes: the environment, the command line and the probe.
fixed == <<fs0, locked, unreadable, formatOpt, config, probe>>

\* ----------------------------------------------------------------- strings

\* UTF-16 code unit of each character used in names, paths and patterns.
CodeUnit(c) ==
    CASE c = "*" -> 42
      [] c = "." -> 46
      [] c = "/" -> 47
      [] c = "?" -> 63
      [] c = "a" -> 97
      [] c = "c" -> 99
      [] c = "k" -> 107
      [] c = "s" -> 115
      [] c = "t" -> 116
      [] c = "x" -> 120

\* String comparison used by Array.prototype.sort() without a comparator:
\* code unit by code unit, a proper prefix first.
RECURSIVE StrLess(_, _)
StrLess(a, b) ==
    IF b = <<>> THEN FALSE
    ELSE IF a = <<>> THEN TRUE
    ELSE IF CodeUnit(Head(a)) # CodeUnit(Head(b))
         THEN CodeUnit(Head(a)) < CodeUnit(Head(b))
    ELSE StrLess(Tail(a), Tail(b))

\* String.prototype.includes
Includes(s, p) ==
    \E i \in 0..(Len(s) - Len(p)) : SubSeq(s, i + 1, i + Len(p)) = p

\* Index of the last "/" of s, 0 when there is none.
LastSlash(s) ==
    LET at == {i \in 1..Len(s) : s[i] = "/"}
    IN  IF at = {} THEN 0 ELSE CHOOSE i \in at : \A j \in at : j <= i

\* path.basename: the part after the last separator.
Basename(s) == SubSeq(s, LastSlash(s) + 1, Len(s))

\* path.join / path.relative(process.cwd(), ...): the entry's names joined by "/".
RECURSIVE RelativePath(_)
RelativePath(segs) ==
    IF segs = <<>> THEN <<>>
    ELSE IF Len(segs) = 1 THEN segs[1]
    ELSE segs[1] \o <<"/">> \o RelativePath(Tail(segs))

\* path.resolve + the kernel's lookup: a path string split at "/" into names.
RECURSIVE SplitPath(_)
SplitPath(s) ==
    LET at == {i \in 1..Len(s) : s[i] = "/"}
    IN  IF at = {} THEN <<s>>
        ELSE LET i == CHOOSE k \in at : \A j \in at : k <= j
             IN  <<SubSeq(s, 1, i - 1)>> \o SplitPath(SubSeq(s, i + 1, Len(s)))

\* String.prototype.replace(/c/g, rep)
RECURSIVE ReplaceAll(_, _, _)
ReplaceAll(s, c, rep) ==
    IF s = <<>> THEN <<>>
    ELSE (IF Head(s) = c THEN rep ELSE <<Head(s)>>) \o ReplaceAll(Tail(s), c, rep)

\* ----------------------------------------------------------- pattern match

\* RegExp.prototype.test for an anchored expression over the atoms the
\* translation can produce: "." is any character, a following "*" repeats the
\* atom, every other character stands for itself.
RECURSIVE RegexMatch(_, _)
RegexMatch(re, name) ==
    IF re = <<>> THEN name = <<>>
    ELSE LET atom == Head(re)
             starred == Len(re) >= 2 /\ re[2] = "*"
             ok(ch) == atom = "." \/ atom = ch
         IN  IF starred
             THEN \/ RegexMatch(SubSeq(re, 3, Len(re)), name)
                  \/ /\ name # <<>>
                     /\ ok(Head(name))
                     /\ RegexMatch(re, Tail(name))
             ELSE /\ name # <<>>
                  /\ ok(Head(name))
                  /\ RegexMatch(Tail(re), Tail(name))

\* The expression matchesPattern builds from a glob pattern.
RegexPattern(pattern) == ReplaceAll(ReplaceAll(pattern, "*", <<".", "*">>), "?", <<".">>)

matchesPattern(name, pattern) == RegexMatch(RegexPattern(pattern), name)

\* One path portion of a glob() pattern against one name (minimatch): "*" is
\* any run of characters, "?" any one character, the rest literal; a name
\* starting with "." is matched only by a pattern starting with ".".
RECURSIVE GlobPortion(_, _)
GlobPortion(pat, name) ==
    IF pat = <<>> THEN name = <<>>
    ELSE IF Head(pat) = "*"
         THEN \/ GlobPortion(Tail(pat), name)
              \/ name # <<>> /\ GlobPortion(pat, Tail(name))
    ELSE /\ name # <<>>
         /\ Head(pat) = "?" \/ Head(pat) = Head(name)
         /\ GlobPortion(Tail(pat), Tail(name))

DotName(name) == name # <<>> /\ Head(name) = "."

\* A glob() pattern, split into portions, against an entry path: a "**"
\* portion stands for any number of directories.
RECURSIVE GlobPath(_, _)
GlobPath(pats, segs) ==
    IF pats = <<>> THEN segs = <<>>
    ELSE IF Head(pats) = <<"*", "*">>
         THEN \/ GlobPath(Tail(pats), segs)
              \/ /\ segs # <<>>
                 /\ ~DotName(Head(segs))
                 /\ GlobPath(pats, Tail(segs))
    ELSE /\ segs # <<>>
         /\ DotName(Head(segs)) => DotName(Head(pats))
         /\ GlobPortion(Head(pats), Head(segs))
         /\ GlobPath(Tail(pats), Tail(segs))

\* -------------------------------------------------------------- filesystem

\* The entries directly inside dir.
Children(fsys, dir) ==
    {p \in DOMAIN fsys : Len(p) = Len(dir) + 1 /\ SubSeq(p, 1, Len(dir)) = dir}

\* Whether p lies at or beneath dir.
Beneath(p, dir) == Len(p) >= Len(dir) /\ SubSeq(p, 1, Len(dir)) = dir

\* A sequence of strings sorted by StrLess (insertion sort, duplicates kept).
RECURSIVE InsertSorted(_, _)
InsertSorted(x, sorted) ==
    IF sorted = <<>> THEN <<x>>
    ELSE IF StrLess(Head(sorted), x) \/ Head(sorted) = x
         THEN <<Head(sorted)>> \o InsertSorted(x, Tail(sorted))
    ELSE <<x>> \o sorted

RECURSIVE SortStrings(_)
SortStrings(seq) ==
    IF seq = <<>> THEN <<>> ELSE InsertSorted(Head(seq), SortStrings(Tail(seq)))

RECURSIVE SetToSeq(_)
SetToSeq(S) ==
    IF S = {} THEN <<>>
    ELSE LET x == CHOOSE y \in S : TRUE IN <<x>> \o SetToSeq(S \ {x})

\* fs.readdirSync(dir, {withFileTypes: true}): the names inside dir.
ReadDir(fsys, dir) ==
    SortStrings(SetToSeq({p[Len(p)] : p \in Children(fsys, dir)}))

\* Whether fs.readdirSync(dir) returns instead of raising.
Readable(dir) == dir \notin unreadable

\* Whether every directory on the way from the working directory to p can be listed.
Reachable(p) == \A k \in 0..(Len(p) - 1) : Readable(SubSeq(p, 1, k))

\* fs.statSync(itemPath).isFile(), false when the entry does not exist.
isFile(fsys, itemPath) ==
    LET p == SplitPath(itemPath) IN p \in DOMAIN fsys /\ fsys[p] = "file"

\* fs.statSync(itemPath).isDirectory(), false when the entry does not exist.
isDirectory(fsys, itemPath) ==
    LET p == SplitPath(itemPath) IN p \in DOMAIN fsys /\ fsys[p] = "dir"

\* --------------------------------------------------------------- exclusion

\* Variant: an exclusion pattern is also matched as a glob against the basename.
shouldExcludeGlob(filePath, excludePatterns) ==
    \E i \in 1..Len(excludePatterns) :
        \/ Includes(filePath, excludePatterns[i])
        \/ Basename(filePath) = excludePatterns[i]
        \/ matchesPattern(Basename(filePath), excludePatterns[i])

\* Variant: only the basename comparison is made.
shouldExcludeBasenameOnly(filePath, excludePatterns) ==
    \E i \in 1..Len(excludePatterns) : Basename(filePath) = excludePatterns[i]

shouldExclude(filePath, excludePatterns) ==
    \E i \in 1..Len(excludePatterns) :
        \/ Includes(filePath, excludePatterns[i])
        \/ Basename(filePath) = excludePatterns[i]

\* --------------------------------------------------------------- traversal

\* An optional number is <<>> when undefined and <<n>> when set.
IsSet(opt) == opt # <<>>

\* glob()'s maxDepth option: entries more than maxDepth levels below cwd are
\* not reported.
GlobDepthOk(maxDepth, p) == IsSet(maxDepth) => Len(p) <= maxDepth[1]

\* findFiles: glob(pattern, {cwd, absolute: false, nodir: true, maxDepth}),
\* each result made relative to the working directory.  glob() passes over a
\* directory it cannot list.
findFiles(fsys, pattern, maxDepth) ==
    SortStrings(SetToSeq({RelativePath(p) : p \in
        {q \in DOMAIN fsys : /\ fsys[q] # "dir"
                             /\ GlobDepthOk(maxDepth, q)
                             /\ Reachable(q)
                             /\ GlobPath(SplitPath(pattern), q)}}))

\* The early return of searchDir.
DepthExceeded(maxDepth, currentDepth) ==
    IsSet(maxDepth) /\ currentDepth > maxDepth[1]

\* Variant: a directory whose name matched is not searched.
DescendsUnlessMatched(isDir, matched) == isDir /\ ~matched

\* Whether searchDir calls itself on an entry: on every directory, matched or not.
Descends(isDir, matched) == isDir

\* findDirectories.searchDir and its loop over the entries of dir.
RECURSIVE searchDirDirectories(_, _, _, _, _)
RECURSIVE scanDirectories(_, _, _, _, _, _)
searchDirDirectories(fsys, pattern, maxDepth, dir, currentDepth) ==
    IF DepthExceeded(maxDepth, currentDepth) THEN <<>>
    ELSE IF ~Readable(dir) THEN <<>>
    ELSE scanDirectories(fsys, pattern, maxDepth, dir, currentDepth, ReadDir(fsys, dir))

scanDirectories(fsys, pattern, maxDepth, dir, currentDepth, entries) ==
    IF entries = <<>> THEN <<>>
    ELSE LET fullPath == Append(dir, Head(entries))
             matched == matchesPattern(Head(entries), pattern)
         IN  (IF fsys[fullPath] = "dir" /\ matched
              THEN <<RelativePath(fullPath)>> ELSE <<>>)
             \o (IF Descends(fsys[fullPath] = "dir", matched)
                 THEN searchDirDirectories(fsys, pattern, maxDepth, fullPath, currentDepth + 1)
                 ELSE <<>>)
             \o scanDirectories(fsys, pattern, maxDepth, dir, currentDepth, Tail(entries))

\* Variant: one directory that cannot be listed ends the whole search empty-handed.
findDirectoriesAllOrNothing(fsys, pattern, maxDepth) ==
    IF unreadable \cap DOMAIN fsys # {} THEN <<>>
    ELSE searchDirDirectories(fsys, pattern, maxDepth, <<>>, 0)

findDirectories(fsys, pattern, maxDepth) ==
    searchDirDirectories(fsys, pattern, maxDepth, <<>>, 0)

\* findItems.searchDir and its loop over the entries of dir.
RECURSIVE searchDirItems(_, _, _, _, _)
RECURSIVE scanItems(_, _, _, _, _, _)
searchDirItems(fsys, pattern, maxDepth, dir, currentDepth) ==
    IF DepthExceeded(maxDepth, currentDepth) THEN <<>>
    ELSE IF ~Readable(dir) THEN <<>>
    ELSE scanItems(fsys, pattern, maxDepth, dir, currentDepth, ReadDir(fsys, dir))

scanItems(fsys, pattern, maxDepth, dir, currentDepth, entries) ==
    IF entries = <<>> THEN <<>>
    ELSE LET fullPath == Append(dir, Head(entries))
             matched == matchesPattern(Head(entries), pattern)
         IN  (IF matched THEN <<RelativePath(fullPath)>> ELSE <<>>)
             \o (IF Descends(fsys[fullPath] = "dir", matched)
                 THEN searchDirItems(fsys, pattern, maxDepth, fullPath, currentDepth + 1)
                 ELSE <<>>)
             \o scanItems(fsys, pattern, maxDepth, dir, currentDepth, Tail(entries))

findItems(fsys, pattern, maxDepth) ==
    searchDirItems(fsys, pattern, maxDepth, <<>>, 0)

\* --------------------------------------------------------------- selection

\* Variant: the results are concatenated without the Set.
KeepAllItems(allItems) == allItems

\* [...new Set(allItems)]: first occurrences, in insertion order.
RECURSIVE UniqueItems(_)
UniqueItems(allItems) ==
    IF allItems = <<>> THEN <<>>
    ELSE LET front == UniqueItems(SubSeq(allItems, 1, Len(allItems) - 1))
             last == allItems[Len(allItems)]
         IN  IF \E i \in 1..Len(front) : front[i] = last THEN front
             ELSE Append(front, last)

\* The concatenated results of the three searches, in the order they run.
AllItems(fsys, cfg) ==
    (IF cfg.filesPattern # <<>>
     THEN findFiles(fsys, cfg.filesPattern, cfg.maxDepth) ELSE <<>>)
    \o (IF cfg.foldersPattern # <<>>
        THEN findDirectories(fsys, cfg.foldersPattern, cfg.maxDepth) ELSE <<>>)
    \o (IF cfg.typesPattern # <<>>
        THEN findItems(fsys, cfg.typesPattern, cfg.maxDepth) ELSE <<>>)

\* The loop pushing every item that is not excluded onto itemsToDelete.
RECURSIVE PushNotExcluded(_, _, _)
PushNotExcluded(items, uniqueItems, excludePatterns) ==
    IF uniqueItems = <<>> THEN items
    ELSE PushNotExcluded(
            IF shouldExclude(Head(uniqueItems), excludePatterns)
            THEN items ELSE Append(items, Head(uniqueItems)),
            Tail(uniqueItems), excludePatterns)

\* Variant: the list is not emptied before the new results are pushed.
ResetItemsKept(old) == old

\* this.itemsToDelete = [] at the top of collectItemsToDelete.
ResetItems(old) == <<>>

\* Variant: the list is left in the order the searches produced it.
SortItemsSkipped(items) == items

\* this.itemsToDelete.sort()
SortItems(items) == SortStrings(items)

\* The value of itemsToDelete after collectItemsToDelete, old being its value before.
collectItemsToDelete(fsys, cfg, old) ==
    SortItems(PushNotExcluded(ResetItems(old),
                              UniqueItems(AllItems(fsys, cfg)),
                              cfg.excludePatterns))

\* --------------------------------------------------------- removal of an entry

\* Variant: the removal takes the whole directory the entry lies in.
SubtreeOfParent(fsys, p) ==
    {q \in DOMAIN fsys : Beneath(q, SubSeq(p, 1, Len(p) - 1))}

\* The entries at or beneath p.
Subtree(fsys, p) == {q \in DOMAIN fsys : Beneath(q, p)}

Without(fsys, gone) == [q \in (DOMAIN fsys) \ gone |-> fsys[q]]

\* The entries of sub that rmSync cannot remove: a locked entry, an entry
\* inside a directory that cannot be listed, and every directory holding one.
Stuck(fsys, lockedSet, sub) ==
    LET inside == {q \in sub : \E d \in unreadable \cap sub : q # d /\ Beneath(q, d)}
    IN  {q \in sub : Subtree(fsys, q) \cap (lockedSet \cup inside) # {}}

\* fileUtils.deleteItem: the possible (return value, filesystem) pairs.  rmSync
\* on a directory raises when an entry of the subtree cannot be removed, after
\* having removed none or some of the others.
deleteItemResults(fsys, lockedSet, itemPath) ==
    LET p == SplitPath(itemPath)
        sub == Subtree(fsys, p)
        removable == sub \ Stuck(fsys, lockedSet, sub)
    IN  IF p \notin DOMAIN fsys THEN {[ok |-> FALSE, fs |-> fsys]}
        ELSE IF fsys[p] = "dir"
             THEN IF removable = sub
                  THEN {[ok |-> TRUE, fs |-> Without(fsys, sub)]}
                  ELSE {[ok |-> FALSE, fs |-> fsys],
                        [ok |-> FALSE, fs |-> Without(fsys, removable)]}
        ELSE IF p \in lockedSet THEN {[ok |-> FALSE, fs |-> fsys]}
             ELSE {[ok |-> TRUE, fs |-> Without(fsys, {p})]}

\* ---------------------------------------------------------------- the engine

\* A line of the run's record: a log line, a question put to the operator
\* (with the answer, "y" or "n") or a removal attempted on the filesystem.
Event(kind, item) == [kind |-> kind, item |-> item, ans |-> ""]

Asked(kind, item, yes) == [kind |-> kind, item |-> item, ans |-> IF yes THEN "y" ELSE "n"]

\* Variant: the answer to confirmProceed is ignored.
AfterBatchAnswerIgnored(proceed) == "loop"

\* processDeletions after the answer to confirmProceed: return, or go on to the loop.
AfterBatchAnswer(proceed) == IF proceed THEN "loop" ELSE "summary"

\* Variant: the interactive branch is taken before the dry-run check.
SkipIfDryRunAfterInteractive(cfg) == cfg.dryRun /\ ~cfg.interactive

\* The guard of the early return of DeletionEngine.deleteItem.
SkipIfDryRun(cfg) == cfg.dryRun

\* Variant: after a preview the items are no longer asked about one by one.
AsksPerItemUnlessPreview(cfg) == cfg.interactive /\ ~cfg.force /\ ~cfg.preview

\* confirmDeletion(item, force): whether the operator is asked at all.
AsksPerItem(cfg) == cfg.interactive /\ ~cfg.force

\* Variant: the batch confirmation is asked for even with --force.
AsksBatchDespiteForce(cfg) == cfg.preview /\ ~cfg.dryRun

\* The guard of the batch confirmation of processDeletions.
AsksBatch(cfg) == cfg.preview /\ ~cfg.dryRun /\ ~cfg.force

getSummary ==
    [totalItems |-> Len(itemsToDelete),
     deleted    |-> Len(deletedItems),
     failed     |-> Len(failedDeletions),
     dryRun     |-> config.dryRun]

\* Variant: any item that was not deleted makes the run fail.
getExitCodeUnlessAllDeleted == IF Len(deletedItems) < Len(itemsToDelete) THEN 1 ELSE 0

getExitCode == IF Len(failedDeletions) > 0 THEN 1 ELSE 0

\* Config.outputFormat as main() builds it from the --format option.
OutputFormat(format) == IF format = "json" THEN "json" ELSE "plain"

\* main(): the three validations before the engine is created.
ConfigValid(cfg) ==
    /\ ~(cfg.filesPattern = <<>> /\ cfg.foldersPattern = <<>> /\ cfg.typesPattern = <<>>)
    /\ ~(cfg.outputFormat # "plain" /\ cfg.outputFormat # "json")
    /\ ~(IsSet(cfg.maxDepth) /\ cfg.maxDepth[1] < 1)

Validate ==
    /\ pc = "validate"
    /\ IF ConfigValid(config)
       THEN pc' = "collect" /\ exitCode' = exitCode
       ELSE pc' = "exited" /\ exitCode' = 1
    /\ UNCHANGED <<fs, fixed, itemsToDelete, deletedItems,
                   failedDeletions, idx, log, previewShown, round, collects, firstItems>>

\* engine.collectItemsToDelete()
Collect ==
    /\ pc = "collect"
    /\ itemsToDelete' = collectItemsToDelete(fs, config, itemsToDelete)
    /\ firstItems' = itemsToDelete
    /\ collects' = collects + 1
    /\ pc' = "process"
    /\ UNCHANGED <<fs, fixed, deletedItems, failedDeletions,
                   idx, log, previewShown, exitCode, round>>

\* A driver that calls engine.collectItemsToDelete() once more before processing.
CollectAgain ==
    /\ pc = "process"
    /\ collects < MaxCollects
    /\ itemsToDelete' = collectItemsToDelete(fs, config, itemsToDelete)
    /\ firstItems' = itemsToDelete
    /\ collects' = collects + 1
    /\ UNCHANGED <<fs, fixed, pc, deletedItems, failedDeletions,
                   idx, log, previewShown, exitCode, round>>

\* A driver that, after processDeletions has returned, starts another
\* collect/process round on the same engine.
RunAgain ==
    /\ pc = "summary"
    /\ round + 1 < MaxRounds
    /\ round' = round + 1
    /\ collects' = 0
    /\ pc' = "collect"
    /\ UNCHANGED <<fs, fixed, itemsToDelete, deletedItems,
                   failedDeletions, idx, log, previewShown, exitCode, firstItems>>

\* processDeletions up to the for loop: the empty case, the preview and the
\* batch confirmation.
ProcessStart ==
    /\ pc = "process"
    /\ IF Len(itemsToDelete) = 0
       THEN /\ log' = Append(log, Event("noitems", <<>>))
            /\ pc' = "summary"
            /\ idx' = 1
            /\ UNCHANGED previewShown
       ELSE IF ~config.preview
       THEN /\ pc' = "loop"
            /\ idx' = 1
            /\ UNCHANGED <<log, previewShown>>
       ELSE /\ previewShown' = Append(previewShown, itemsToDelete)
            /\ IF AsksBatch(config)
               THEN \E proceed \in BOOLEAN :
                      /\ log' = log \o <<Event("preview", <<>>),
                                          Asked("confirmProceed", <<>>, proceed)>>
                                    \o (IF proceed THEN <<>>
                                        ELSE <<Event("cancelled", <<>>)>>)
                      /\ pc' = AfterBatchAnswer(proceed)
                      /\ idx' = 1
               ELSE /\ log' = Append(log, Event("preview", <<>>))
                    /\ pc' = "loop"
                    /\ idx' = 1
    /\ UNCHANGED <<fs, fixed, itemsToDelete, deletedItems,
                   failedDeletions, exitCode, round, collects, firstItems>>

\* Variant: the loop ends one item early.
AfterItemStopsShort == IF idx + 1 >= Len(itemsToDelete) THEN "summary" ELSE "loop"

\* Where the for loop goes after the item at idx.
AfterItem == IF idx = Len(itemsToDelete) THEN "summary" ELSE "loop"

\* Variant: the first failed removal ends the loop.
AfterOutcomeAbort(failed) == IF failed THEN "summary" ELSE AfterItem

\* DeletionEngine.deleteItem returns normally whatever the outcome, so the
\* loop goes on to the next item.
AfterOutcome(failed) == AfterItem

\* Variant: an entry that is gone is counted as a failed deletion.
NotFoundCounted(failed, item) == Append(failed, item)

\* failedDeletions after the "Item not found" branch: nothing is pushed.
NotFoundTally(failed, item) == failed

\* One iteration of the loop: DeletionEngine.deleteItem(item).
DeleteItem ==
    /\ pc = "loop"
    /\ idx <= Len(itemsToDelete)
    /\ LET item == itemsToDelete[idx] IN
       IF SkipIfDryRun(config)
       THEN /\ log' = Append(log, Event("would", item))
            /\ deletedItems' = Append(deletedItems, item)
            /\ UNCHANGED <<fs, failedDeletions>>
       ELSE \E confirmed \in (IF AsksPerItem(config)
                              THEN BOOLEAN ELSE {TRUE}) :
            LET asked == IF AsksPerItem(config)
                         THEN <<Asked("prompt", item, confirmed)>> ELSE <<>>
            IN  IF ~confirmed
                THEN /\ log' = log \o asked \o <<Event("skipped", item)>>
                     /\ UNCHANGED <<fs, deletedItems, failedDeletions>>
                ELSE IF isDirectory(fs, item) \/ isFile(fs, item)
                THEN \E r \in deleteItemResults(fs, locked, item) :
                       /\ fs' = r.fs
                       /\ IF r.ok
                          THEN /\ log' = log \o asked
                                           \o <<Event("remove", item), Event("deleted", item)>>
                               /\ deletedItems' = Append(deletedItems, item)
                               /\ UNCHANGED failedDeletions
                          ELSE /\ log' = log \o asked
                                           \o <<Event("remove", item), Event("failed", item)>>
                               /\ failedDeletions' = Append(failedDeletions, item)
                               /\ UNCHANGED deletedItems
                ELSE /\ log' = log \o asked \o <<Event("notfound", item)>>
                     /\ failedDeletions' = NotFoundTally(failedDeletions, item)
                     /\ UNCHANGED <<fs, deletedItems>>
    /\ pc' = AfterOutcome(Len(failedDeletions') > Len(failedDeletions))
    /\ idx' = idx + 1
    /\ UNCHANGED <<fixed, itemsToDelete, previewShown, exitCode,
                   round, collects, firstItems>>

\* engine.printSummary(); process.exit(engine.getExitCode())
Exit ==
    /\ pc = "summary"
    /\ exitCode' = getExitCode
    /\ pc' = "exited"
    /\ UNCHANGED <<fs, fixed, itemsToDelete, deletedItems,
                   failedDeletions, idx, log, previewShown, round, collects, firstItems>>

\* --------------------------------------------------------- the bash script

\* find's -name test (fnmatch): * is any run of characters, ? any one
\* character, every other character itself.
RECURSIVE FnMatch(_, _)
FnMatch(pat, name) ==
    IF pat = <<>> THEN name = <<>>
    ELSE IF Head(pat) = "*"
         THEN \/ FnMatch(Tail(pat), name)
              \/ name # <<>> /\ FnMatch(pat, Tail(name))
    ELSE /\ name # <<>>
         /\ Head(pat) = "?" \/ Head(pat) = Head(name)
         /\ FnMatch(Tail(pat), Tail(name))

\* The path find prints for an entry: "." for the starting point, "./..." below it.
FindPath(p) == IF p = <<>> THEN <<".">> ELSE <<".", "/">> \o RelativePath(p)

\* The last component of what find prints, which -name is tested against.
FindName(p) == IF p = <<>> THEN <<".">> ELSE p[Len(p)]

\* should_exclude "$path"
should_exclude(path, excludePatterns) ==
    \E i \in 1..Len(excludePatterns) :
        \/ Includes(path, excludePatterns[i])
        \/ Basename(path) = excludePatterns[i]

\* find . [-maxdepth N] [-type f|d] -name PATTERN: the entries printed, the
\* starting point included; itemType is "" when no -type is given.  What lies
\* inside a directory that cannot be listed is not seen.
FindResults(fsys, itemType, pattern, maxDepth) ==
    {p \in (DOMAIN fsys) \cup {<<>>} :
        /\ IsSet(maxDepth) => Len(p) <= maxDepth[1]
        /\ Reachable(p)
        /\ \/ itemType = ""
           \/ itemType = "d" /\ (p = <<>> \/ fsys[p] = "dir")
           \/ itemType = "f" /\ p # <<>> /\ fsys[p] = "file"
        /\ FnMatch(pattern, FindName(p))}

\* collect_items_to_delete: the paths of ITEMS_TO_DELETE (sort -u leaves each once).
collect_items_to_delete(fsys, cfg) ==
    LET found ==
            (IF cfg.filesPattern # <<>>
             THEN FindResults(fsys, "f", cfg.filesPattern, cfg.maxDepth) ELSE {})
            \cup (IF cfg.foldersPattern # <<>>
                  THEN FindResults(fsys, "d", cfg.foldersPattern, cfg.maxDepth) ELSE {})
            \cup (IF cfg.typesPattern # <<>>
                  THEN FindResults(fsys, "", cfg.typesPattern, cfg.maxDepth) ELSE {})
    IN  {FindPath(p) : p \in {q \in found : ~should_exclude(FindPath(q), cfg.excludePatterns)}}

\* ------------------------------------------------- calls of the utilities

\* A call of one of the utility functions with its arguments; result is <<>>
\* until the call has returned and <<value>> afterwards.
Probe(fn, subject, patterns) ==
    [fn |-> fn, subject |-> subject, patterns |-> patterns, result |-> <<>>]

NoProbe == Probe("none", <<>>, <<>>)

\* matchesPattern(name, pattern)
ApplyMatch ==
    /\ pc = "probe"
    /\ probe.fn = "matchesPattern"
    /\ probe.result = <<>>
    /\ probe' = [probe EXCEPT !.result = <<matchesPattern(probe.subject, probe.patterns[1])>>]
    /\ UNCHANGED <<fs, fs0, locked, unreadable, formatOpt, config, pc, itemsToDelete,
                   deletedItems, failedDeletions, idx, log, previewShown, exitCode,
                   round, collects, firstItems>>

\* shouldExclude(filePath, excludePatterns)
ApplyExclude ==
    /\ pc = "probe"
    /\ probe.fn = "shouldExclude"
    /\ probe.result = <<>>
    /\ probe' = [probe EXCEPT !.result = <<shouldExclude(probe.subject, probe.patterns)>>]
    /\ UNCHANGED <<fs, fs0, locked, unreadable, formatOpt, config, pc, itemsToDelete,
                   deletedItems, failedDeletions, idx, log, previewShown, exitCode,
                   round, collects, firstItems>>

\* ------------------------------------------------------------ initial states

NameC == <<"c">>
NameS == <<"s">>
NameK == <<"k">>
NameA == <<"a">>
NameT == <<"t">>
NameAT == <<"a", ".", "t">>

Tree(dirs, files) == [p \in dirs \cup files |-> IF p \in dirs THEN "dir" ELSE "file"]

\* c/ with an excluded-looking file and another c/ inside, s/c/ one level deeper.
Tree1 == Tree({<<NameC>>, <<NameC, NameC>>, <<NameS>>, <<NameS, NameC>>},
              {<<NameC, NameK>>, <<NameC, NameAT>>, <<NameS, NameAT>>, <<NameAT>>})

\* A chain three levels deep.
Tree2 == Tree({<<NameS>>, <<NameS, NameS>>, <<NameS, NameS, NameC>>, <<NameS, NameC>>},
              {<<NameS, NameS, NameAT>>, <<NameAT>>})

\* a/t and a.t sort differently as strings and as name sequences; k/c is a
\* file with the name of a directory pattern.
Tree3 == Tree({<<NameA>>, <<NameK>>},
              {<<NameA, NameT>>, <<NameAT>>, <<NameK, NameAT>>, <<NameK, NameC>>})

Trees == {Tree1, Tree2, Tree3}

Lockable == {<<NameAT>>, <<NameC, NameK>>, <<NameS, NameS, NameAT>>}

Unlistable == {<<NameC>>, <<NameS>>}

FormatChoices == {"plain", "json", "xml"}

Patterns(files, folders, types) ==
    [filesPattern |-> files, foldersPattern |-> folders, typesPattern |-> types]

PatternChoices ==
    { Patterns(<<"*", ".", "t">>, <<>>, <<>>),
      Patterns(<<>>, <<"c">>, <<>>),
      Patterns(<<>>, <<>>, <<"*">>),
      Patterns(<<"*", "*", "/", "*", ".", "t">>, <<>>, <<"a", "?", "t">>),
      Patterns(<<>>, <<>>, <<>>) }

ExcludeChoices == { <<>>, <<NameK>>, <<<<"s", "/">>, NameK>> }

DepthChoices == {<<>>} \cup {<<n>> : n \in 0..MaxDepthOpt}

Configs ==
    {[dryRun |-> d, interactive |-> i, force |-> f, preview |-> p,
      maxDepth |-> m, outputFormat |-> o,
      filesPattern |-> pat.filesPattern,
      foldersPattern |-> pat.foldersPattern,
      typesPattern |-> pat.typesPattern,
      excludePatterns |-> ex] :
        d \in BOOLEAN, i \in BOOLEAN, f \in BOOLEAN, p \in BOOLEAN,
        m \in DepthChoices, pat \in PatternChoices, ex \in ExcludeChoices,
        o \in {"plain", "json"}}

Init ==
    /\ fs \in Trees
    /\ fs0 = fs
    /\ locked \in {{}} \cup {{p} : p \in Lockable \cap DOMAIN fs}
    /\ unreadable \in {{}} \cup {{p} : p \in {q \in Unlistable \cap DOMAIN fs : locked = {}}}
    /\ formatOpt \in FormatChoices
    /\ config \in {c \in Configs : c.outputFormat = OutputFormat(formatOpt)}
    /\ formatOpt = "plain" \/ (config.excludePatterns = <<>> /\ config.maxDepth = <<>>)
    /\ probe = NoProbe
    /\ pc = "validate"
    /\ itemsToDelete = <<>>
    /\ deletedItems = <<>>
    /\ failedDeletions = <<>>
    /\ idx = 0
    /\ log = <<>>
    /\ previewShown = <<>>
    /\ exitCode = -1
    /\ round = 0
    /\ collects = 0
    /\ firstItems = <<>>

Next == Validate \/ Collect \/ ProcessStart \/ DeleteItem \/ Exit

Spec == Init /\ [][Next]_vars

\* The engine driven by a caller that calls collectItemsToDelete repeatedly.
NextRecollect == Next \/ CollectAgain

SpecRecollect == Init /\ [][NextRecollect]_vars

\* The engine driven by a caller that runs further rounds on the same engine.
NextRerun == Next \/ RunAgain

\* Rounds are re-run without exclusions, a depth limit, a format or unlistable
\* directories, which the tallies do not read.
InitRerun ==
    /\ Init
    /\ config.excludePatterns = <<>>
    /\ config.maxDepth = <<>>
    /\ formatOpt = "plain"
    /\ unreadable = {}

SpecRerun == InitRerun /\ [][NextRerun]_vars

\* The utility functions called on their own.
Strings(alphabet, maxLen) == UNION {[1..k -> alphabet] : k \in 0..maxLen}

MatchNames == Strings({"a", "c", "t", "x", "."}, MaxNameLen)

MatchPatterns ==
    { <<"*", ".", "t">>, <<"a", "?", "t">>, <<"a", ".", "t">>, <<"*">>, <<"?">>,
      <<"c">>, <<"*", "a", "*">>, <<"t", "*">> }

ExcludePaths == {RelativePath(p) : p \in UNION {DOMAIN t : t \in Trees}}

ExcludePatterns ==
    { <<>>, NameK, NameC, NameAT, <<"s", "/">>, <<".", "t">>, <<"*", ".", "t">> }

ExcludeLists == UNION {[1..k -> ExcludePatterns] : k \in 0..MaxExcludes}

Probes ==
    {Probe("matchesPattern", n, <<pat>>) : n \in MatchNames, pat \in MatchPatterns}
    \cup {Probe("shouldExclude", path, ex) : path \in ExcludePaths, ex \in ExcludeLists}

InitProbe ==
    /\ probe \in Probes
    /\ pc = "probe"
    /\ fs = Tree1
    /\ fs0 = fs
    /\ locked = {}
    /\ unreadable = {}
    /\ formatOpt = "plain"
    /\ config = CHOOSE c \in Configs : TRUE
    /\ itemsToDelete = <<>>
    /\ deletedItems = <<>>
    /\ failedDeletions = <<>>
    /\ idx = 0
    /\ log = <<>>
    /\ previewShown = <<>>
    /\ exitCode = -1
    /\ round = 0
    /\ collects = 0
    /\ firstItems = <<>>

NextProbe == ApplyMatch \/ ApplyExclude

SpecProbe == InitProbe /\ [][NextProbe]_vars

\* ================================================================ properties

PerItemKinds == {"prompt", "remove", "would", "skipped", "deleted", "failed", "notfound"}

TerminalKinds == {"would", "skipped", "deleted", "failed", "notfound"}

LogHas(kind) == \E j \in 1..Len(log) : log[j].kind = kind

\* processDeletions has returned (main is about to exit or has exited normally).
ProcessReturned == pc = "summary" \/ (pc = "exited" /\ ConfigValid(config))

\* C1: with dryRun set, whatever interactive, force and preview are, the
\* filesystem is never changed, and once processDeletions has returned every
\* worklist item has a "Would delete" record and the summary has
\* deleted = totalItems and failed = 0.
C1_DryRunNoMutation ==
    config.dryRun =>
        /\ fs = fs0
        /\ ~LogHas("remove")
        /\ ProcessReturned =>
            /\ getSummary.deleted = getSummary.totalItems
            /\ getSummary.failed = 0
            /\ \A i \in 1..Len(itemsToDelete) :
                 \E j \in 1..Len(log) : log[j] = Event("would", itemsToDelete[i])

C1_Witness ==
    /\ config.dryRun /\ config.interactive /\ config.force /\ config.preview
    /\ pc = "exited"
    /\ Len(itemsToDelete) >= 2
    /\ \E i \in 1..Len(itemsToDelete) : isDirectory(fs, itemsToDelete[i])

\* C2: a run that passed validation exits with 0 or 1, and with 1 exactly when
\* some removal failed; declines, a declined batch, not-found items and dry
\* runs leave the exit code 0.
C2_ExitCodeIffFailure ==
    (pc = "exited" /\ ConfigValid(config)) =>
        /\ exitCode \in {0, 1}
        /\ exitCode = 1 <=> LogHas("failed")
        /\ exitCode = 1 <=> failedDeletions # <<>>

C2_Witness ==
    /\ pc = "exited"
    /\ exitCode = 1
    /\ LogHas("skipped")
    /\ LogHas("deleted")

\* C3: with preview set and neither dryRun nor force, a non-empty worklist
\* gets exactly one batch confirmation, asked before any per-item prompt,
\* record or removal; when it is declined no item is processed, nothing is
\* removed, deleted = failed = 0 and the exit code is 0.
C3_BatchGate ==
    AsksBatch(config) =>
        LET asks == {j \in 1..Len(log) : log[j].kind = "confirmProceed"} IN
        /\ Cardinality(asks) <= 1
        /\ (pc \in {"loop", "summary", "exited"} /\ Len(itemsToDelete) > 0)
              => Cardinality(asks) = 1
        /\ \A j \in 1..Len(log) :
              log[j].kind \in PerItemKinds
                 => \E i \in asks : i < j /\ log[i].ans = "y"
        /\ (\E i \in asks : log[i].ans = "n") =>
              /\ \A j \in 1..Len(log) : log[j].kind \notin PerItemKinds
              /\ fs = fs0
              /\ deletedItems = <<>> /\ failedDeletions = <<>>
              /\ pc \in {"summary", "exited"}
              /\ pc = "exited" => exitCode = 0

C3_Witness ==
    /\ AsksBatch(config) /\ config.interactive
    /\ pc = "exited"
    /\ Len(itemsToDelete) >= 2
    /\ \E j \in 1..Len(log) : log[j].kind = "confirmProceed" /\ log[j].ans = "n"

InSeq(x, seq) == \E i \in 1..Len(seq) : seq[i] = x

\* The path is excluded by the exclusion list ex: some pattern is a substring
\* of it or equals its basename.
IsExcluded(path, ex) ==
    \E j \in 1..Len(ex) : Includes(path, ex[j]) \/ Basename(path) = ex[j]

\* C4: every entry whose relative path is excluded still exists when the run
\* has ended, also when it lies inside a worklist directory.
C4_ExcludedSurvive ==
    pc = "exited" =>
        \A p \in DOMAIN fs0 :
            IsExcluded(RelativePath(p), config.excludePatterns) => p \in DOMAIN fs

\* C5: no worklist path contains an exclusion pattern or has a basename equal
\* to one.
C5_NoExcludedOnWorklist ==
    \A i \in 1..Len(itemsToDelete) :
        \A j \in 1..Len(config.excludePatterns) :
            /\ ~Includes(itemsToDelete[i], config.excludePatterns[j])
            /\ Basename(itemsToDelete[i]) # config.excludePatterns[j]

C5_Witness ==
    /\ pc = "process"
    /\ itemsToDelete # <<>>
    /\ \E k \in 1..Len(AllItems(fs, config)) :
          /\ IsExcluded(AllItems(fs, config)[k], config.excludePatterns)
          /\ ~InSeq(AllItems(fs, config)[k], itemsToDelete)

\* Depth of a worklist path: entries directly inside the root are at depth 1.
DepthOf(path) == Len(SplitPath(path))

\* C6: with maxDepth = n no entry deeper than n is on the worklist.
C6_DepthUpperBound ==
    IsSet(config.maxDepth) =>
        \A i \in 1..Len(itemsToDelete) : DepthOf(itemsToDelete[i]) <= config.maxDepth[1]

\* The entry p of fsys is one the configured patterns select: its name matches
\* a pattern (as a glob: "*" any run, "?" one character) of a class that
\* admits its type.
Selectable(fsys, cfg, p) ==
    LET name == p[Len(p)] IN
    \/ cfg.filesPattern # <<>> /\ fsys[p] = "file" /\ GlobPortion(cfg.filesPattern, name)
    \/ cfg.foldersPattern # <<>> /\ fsys[p] = "dir" /\ GlobPortion(cfg.foldersPattern, name)
    \/ cfg.typesPattern # <<>> /\ GlobPortion(cfg.typesPattern, name)

\* C7: with maxDepth = n every selectable, non-excluded entry at depth <= n
\* is on the worklist.
C7_DepthLowerBound ==
    (pc = "process" /\ IsSet(config.maxDepth)) =>
        \A p \in DOMAIN fs :
            (/\ Len(p) <= config.maxDepth[1]
             /\ Selectable(fs, config, p)
             /\ ~IsExcluded(RelativePath(p), config.excludePatterns))
            => InSeq(RelativePath(p), itemsToDelete)

\* C8: the worklist never holds the same path twice.
C8_NoDuplicates ==
    \A i, j \in 1..Len(itemsToDelete) : i # j => itemsToDelete[i] # itemsToDelete[j]

C8_Witness ==
    /\ pc = "process"
    /\ config.filesPattern # <<>> /\ config.typesPattern # <<>>
    /\ \E i \in 1..Len(itemsToDelete) :
          /\ InSeq(itemsToDelete[i], findFiles(fs, config.filesPattern, config.maxDepth))
          /\ InSeq(itemsToDelete[i], findItems(fs, config.typesPattern, config.maxDepth))

\* a comes strictly before b in lexicographic order of code units.
LexLess(a, b) ==
    \E k \in 1..Len(b) :
        /\ \A m \in 1..(k - 1) : m <= Len(a) /\ a[m] = b[m]
        /\ \/ k > Len(a)
           \/ k <= Len(a) /\ CodeUnit(a[k]) < CodeUnit(b[k])

IsPerItem(e) == e.kind \in PerItemKinds

IsTerminal(e) == e.kind \in TerminalKinds

\* C9: the worklist is in ascending lexicographic order of the path strings;
\* every preview lists it in that order; and the prompts, removals and
\* records follow it: the k-th terminal record is about the k-th item, and
\* every prompt, removal or record is about the first item that has no
\* terminal record yet.
C9_WorklistOrder ==
    LET perItem == SelectSeq(log, IsPerItem)
        terminal == SelectSeq(log, IsTerminal)
    IN  /\ \A i \in 1..(Len(itemsToDelete) - 1) :
              LexLess(itemsToDelete[i], itemsToDelete[i + 1])
        /\ \A k \in 1..Len(previewShown) : previewShown[k] = itemsToDelete
        /\ Len(terminal) <= Len(itemsToDelete)
        /\ \A k \in 1..Len(terminal) : terminal[k].item = itemsToDelete[k]
        /\ \A a \in 1..Len(perItem) :
              LET done == Len(SelectSeq(SubSeq(perItem, 1, a - 1), IsTerminal))
              IN  done < Len(itemsToDelete) /\ perItem[a].item = itemsToDelete[done + 1]

C9_Witness ==
    /\ pc = "exited"
    /\ config.preview /\ AsksPerItem(config) /\ ~config.dryRun
    /\ \E i \in 1..(Len(itemsToDelete) - 1) :
          /\ itemsToDelete[i] = <<"a", ".", "t">>
          /\ itemsToDelete[i + 1] = <<"a", "/", "t">>
    /\ LogHas("skipped") /\ LogHas("deleted") /\ LogHas("notfound")

\* C10: a second collectItemsToDelete on an unchanged filesystem and
\* configuration leaves exactly the worklist the first call built.
C10_CollectIdempotent ==
    (pc = "process" /\ collects >= 2) => itemsToDelete = firstItems

C10_Witness ==
    /\ pc = "process"
    /\ collects = 2
    /\ Len(itemsToDelete) >= 2
    /\ fs = fs0

\* The items of the events of the given kind, in the order they were logged.
RECURSIVE ItemsOf(_, _)
ItemsOf(events, kind) ==
    IF events = <<>> THEN <<>>
    ELSE (IF Head(events).kind = kind THEN <<Head(events).item>> ELSE <<>>)
         \o ItemsOf(Tail(events), kind)

\* The answers given to the per-item prompts, in order.
RECURSIVE Answers(_)
Answers(events) ==
    IF events = <<>> THEN <<>>
    ELSE (IF Head(events).kind = "prompt" THEN <<Head(events).ans>> ELSE <<>>)
         \o Answers(Tail(events))

\* The last event of the record after a step that added to it.
Logged(kind) == Len(log') > Len(log) /\ log'[Len(log')].kind = kind

PromptsEachItem == config.interactive /\ ~config.force /\ ~config.dryRun

\* Every item the loop has reached was asked about once, in worklist order,
\* right before its skip or its removal step.
C11_State ==
    PromptsEachItem =>
        /\ ItemsOf(log, "prompt") = SubSeq(itemsToDelete, 1, idx - 1)
        /\ \A j \in 1..Len(log) :
              /\ log[j].kind \in {"skipped", "remove", "notfound"} =>
                    /\ j > 1
                    /\ log[j - 1].kind = "prompt"
                    /\ log[j - 1].item = log[j].item
                    /\ log[j - 1].ans = (IF log[j].kind = "skipped" THEN "n" ELSE "y")
              /\ log[j].kind = "prompt" =>
                    /\ j < Len(log)
                    /\ log[j + 1].item = log[j].item
                    /\ log[j + 1].kind \in (IF log[j].ans = "n" THEN {"skipped"}
                                            ELSE {"remove", "notfound"})
              /\ log[j].kind = "skipped" =>
                    /\ ~InSeq(log[j].item, deletedItems)
                    /\ ~InSeq(log[j].item, failedDeletions)
                    /\ ~InSeq(log[j].item, ItemsOf(log, "remove"))
        /\ ( /\ pc = "exited"
             /\ Len(itemsToDelete) = 2
             /\ Answers(log) = <<"n", "y">>
             /\ LET second == Subtree(fs0, SplitPath(itemsToDelete[2]))
                IN  Stuck(fs0, locked, second) = {} )
            => /\ Len(ItemsOf(log, "skipped")) = 1
               /\ getSummary.deleted = 1
               /\ getSummary.failed = 0
               /\ exitCode = 0

\* Declining an item changes neither the filesystem nor the tallies.
C11_Step ==
    (PromptsEachItem /\ Logged("skipped")) =>
        /\ fs' = fs
        /\ deletedItems' = deletedItems
        /\ failedDeletions' = failedDeletions

\* C11: with --interactive, without --force and --dry-run, every item is asked
\* about exactly once before its removal; a declined item stays on the
\* filesystem and in neither tally, a confirmed one goes on to the removal
\* step; two items answered "n" then "y" give one skip, deleted = 1,
\* failed = 0 and exit code 0.
C11_InteractivePrompt == []C11_State /\ [][C11_Step]_vars

C11_Witness ==
    /\ PromptsEachItem
    /\ pc = "exited"
    /\ Len(itemsToDelete) = 2
    /\ Answers(log) = <<"n", "y">>
    /\ isDirectory(fs, itemsToDelete[1])
    /\ ~isDirectory(fs, itemsToDelete[2])
    /\ deletedItems = <<itemsToDelete[2]>>
    /\ exitCode = 0

\* The items of the events whose kind is one of kinds, in the order logged.
RECURSIVE ItemsIn(_, _)
ItemsIn(events, kinds) ==
    IF events = <<>> THEN <<>>
    ELSE (IF Head(events).kind \in kinds THEN <<Head(events).item>> ELSE <<>>)
         \o ItemsIn(Tail(events), kinds)

RemovalKinds == {"deleted", "failed", "notfound"}

\* The for loop ran to its end.
LoopDone == ProcessReturned /\ ~LogHas("cancelled") /\ ~LogHas("noitems")

\* C12: with --dry-run or --force no confirmation is ever asked for, neither
\* for the batch nor for an item; with --force and --interactive and without
\* --dry-run every item goes on to the removal step.
C12_NoConfirmation ==
    /\ (config.dryRun \/ config.force) =>
          \A j \in 1..Len(log) :
              log[j].kind \notin {"confirmProceed", "prompt", "skipped", "cancelled"}
    /\ (config.force /\ config.interactive /\ ~config.dryRun) =>
          /\ ItemsIn(log, RemovalKinds) = SubSeq(itemsToDelete, 1, idx - 1)
          /\ ProcessReturned /\ ~LogHas("noitems") => idx - 1 = Len(itemsToDelete)

C12_Witness ==
    /\ config.force /\ config.interactive /\ config.preview /\ ~config.dryRun
    /\ pc = "exited"
    /\ Len(itemsToDelete) >= 2
    /\ Len(ItemsIn(log, {"remove"})) >= 2
    /\ previewShown # <<>>

\* What the existence check of the removal step makes of the item at idx.
C13_Step ==
    (pc = "loop" /\ pc' # "exited" /\ idx' = idx + 1 /\ ~config.dryRun /\ ~Logged("skipped")) =>
        LET item == itemsToDelete[idx] IN
        /\ Logged("notfound") <=> SplitPath(item) \notin DOMAIN fs
        /\ Logged("notfound") =>
              /\ log'[Len(log')].item = item
              /\ fs' = fs
              /\ deletedItems' = deletedItems
              /\ failedDeletions' = failedDeletions

C13_State ==
    /\ \A j \in 1..Len(log) :
          log[j].kind = "notfound" =>
              /\ ~InSeq(log[j].item, deletedItems)
              /\ ~InSeq(log[j].item, failedDeletions)
    /\ (pc = "exited" /\ ConfigValid(config) /\ ~LogHas("failed")) => exitCode = 0

\* C13: the removal step looks the item up on the filesystem as it is then;
\* an entry that is gone gets a warning, goes to neither the deleted nor the
\* failed list and leaves the exit code alone.
C13_VanishedItem == []C13_State /\ [][C13_Step]_vars

C13_Witness ==
    /\ pc = "exited"
    /\ exitCode = 0
    /\ \E j \in 1..Len(log) :
          /\ log[j].kind = "notfound"
          /\ SplitPath(log[j].item) \in DOMAIN fs0
          /\ InSeq(log[j].item, itemsToDelete)

C14_Step ==
    Logged("failed") =>
        /\ failedDeletions' = Append(failedDeletions, itemsToDelete[idx])
        /\ deletedItems' = deletedItems
        /\ pc' = (IF idx = Len(itemsToDelete) THEN "summary" ELSE "loop")

C14_State ==
    /\ failedDeletions = ItemsIn(log, {"failed"})
    /\ ItemsIn(log, TerminalKinds) = SubSeq(itemsToDelete, 1, idx - 1)
    /\ \A j \in 1..Len(log) :
          log[j].kind = "failed" =>
              j > 1 /\ log[j - 1].kind = "remove" /\ log[j - 1].item = log[j].item
    /\ LoopDone => Len(ItemsIn(log, TerminalKinds)) = Len(itemsToDelete)

\* C14: a removal that raises an error puts the path on the failed list, in
\* worklist order, and the loop goes on: every later item is still processed.
C14_FailureContinues == []C14_State /\ [][C14_Step]_vars

C14_Witness ==
    /\ pc = "exited"
    /\ exitCode = 1
    /\ \E j \in 1..Len(log) : \E k \in (j + 1)..Len(log) :
          /\ log[j].kind = "failed"
          /\ log[k].kind = "deleted"
          /\ StrLess(log[j].item, log[k].item)

\* The command line is one the program is to refuse.
InvalidOptions ==
    \/ config.filesPattern = <<>> /\ config.foldersPattern = <<>> /\ config.typesPattern = <<>>
    \/ IsSet(config.maxDepth) /\ config.maxDepth[1] < 1
    \/ formatOpt \notin {"plain", "json"}

\* C15: a command line without any pattern, with a depth that is not a
\* positive integer or with a format other than plain and json is refused
\* with exit code 1 before any traversal, prompt or deletion.
C15_InvalidRejected ==
    (InvalidOptions /\ pc # "validate") =>
        /\ pc = "exited"
        /\ exitCode = 1
        /\ collects = 0
        /\ itemsToDelete = <<>>
        /\ log = <<>>
        /\ fs = fs0

\* The call of fn made on its own has returned.
Returned(fn) == probe.fn = fn /\ probe.result # <<>>

\* A wildcard pattern in which every character but * and ? stands for itself.
RECURSIVE LiteralGlob(_, _)
LiteralGlob(pat, name) ==
    IF pat = <<>> THEN name = <<>>
    ELSE IF Head(pat) = "*"
         THEN \E k \in 0..Len(name) : LiteralGlob(Tail(pat), SubSeq(name, k + 1, Len(name)))
    ELSE /\ name # <<>>
         /\ Head(pat) = "?" \/ Head(pat) = Head(name)
         /\ LiteralGlob(Tail(pat), Tail(name))

\* C16: matchesPattern matches the whole name, * standing for any run of
\* characters, ? for exactly one, and every other character of the pattern,
\* "." included, for itself only.
C16_LiteralPattern ==
    Returned("matchesPattern") =>
        probe.result[1] = LiteralGlob(probe.patterns[1], probe.subject)

\* t occurs in s, character for character.
IsSubstring(s, t) ==
    \E i \in 1..(Len(s) - Len(t) + 1) : \A k \in 1..Len(t) : s[i + k - 1] = t[k]

\* t is what follows the last "/" of s, or all of s when it has none.
IsLastSegment(s, t) ==
    /\ Len(t) <= Len(s)
    /\ \A k \in 1..Len(t) : t[k] # "/" /\ s[Len(s) - Len(t) + k] = t[k]
    /\ Len(t) = Len(s) \/ s[Len(s) - Len(t)] = "/"
    /\ s # <<>> => s[Len(s)] # "/"

\* C20: shouldExclude is true exactly when an exclusion pattern occurs in the
\* path string or equals its basename; wildcards in a pattern are not
\* expanded, and an empty list excludes nothing.
C20_ExcludeLiteral ==
    Returned("shouldExclude") =>
        /\ probe.result[1] <=>
              \E i \in 1..Len(probe.patterns) :
                  \/ IsSubstring(probe.subject, probe.patterns[i])
                  \/ IsLastSegment(probe.subject, probe.patterns[i])
        /\ probe.patterns = <<>> => ~probe.result[1]
        /\ (probe.subject = NameAT /\ probe.patterns = << <<"*", ".", "t">> >>)
              => ~probe.result[1]

C20_Witness ==
    /\ Returned("shouldExclude")
    /\ probe.subject = NameAT
    /\ probe.patterns = << <<"*", ".", "t">> >>
    /\ probe.result = <<FALSE>>

FilesOnly ==
    /\ config.filesPattern # <<>>
    /\ config.foldersPattern = <<>>
    /\ config.typesPattern = <<>>

\* The worklist has been collected.
Collected == ConfigValid(config) /\ pc \notin {"validate", "collect", "probe"}

\* C17: a files pattern selects regular files only, and selects a regular
\* file whose name matches at every depth the depth limit allows, not only
\* directly under the working directory.
C17_FilesAtEveryDepth ==
    (FilesOnly /\ Collected /\ unreadable = {}) =>
        /\ \A i \in 1..Len(itemsToDelete) : isFile(fs0, itemsToDelete[i])
        /\ \A p \in DOMAIN fs0 :
              ( /\ fs0[p] = "file"
                /\ LiteralGlob(config.filesPattern, p[Len(p)])
                /\ IsSet(config.maxDepth) => Len(p) <= config.maxDepth[1]
                /\ ~IsExcluded(RelativePath(p), config.excludePatterns) )
              => InSeq(RelativePath(p), itemsToDelete)

FoldersOnly ==
    /\ config.foldersPattern # <<>>
    /\ config.filesPattern = <<>>
    /\ config.typesPattern = <<>>

TypesOnly ==
    /\ config.typesPattern # <<>>
    /\ config.filesPattern = <<>>
    /\ config.foldersPattern = <<>>

ItemSet == {itemsToDelete[i] : i \in 1..Len(itemsToDelete)}

\* The entries of the starting tree that are not excluded and pass the test.
Candidates(Test(_)) ==
    {RelativePath(p) : p \in {q \in DOMAIN fs0 :
        Test(q) /\ ~IsExcluded(RelativePath(q), config.excludePatterns)}}

FolderTest(p) == fs0[p] = "dir" /\ LiteralGlob(config.foldersPattern, p[Len(p)])

TypeTest(p) == LiteralGlob(config.typesPattern, p[Len(p)])

\* C18: without a depth limit a folders pattern selects the directories whose
\* name matches, wherever they are, and nothing else; a types pattern selects
\* the files and directories whose name matches; an entry inside a directory
\* that matched is selected as well.
C18_FoldersAndTypes ==
    (Collected /\ ~IsSet(config.maxDepth) /\ unreadable = {}) =>
        /\ FoldersOnly => ItemSet = Candidates(FolderTest)
        /\ TypesOnly => ItemSet = Candidates(TypeTest)

C18_Witness ==
    /\ Collected
    /\ FoldersOnly
    /\ ~IsSet(config.maxDepth)
    /\ unreadable = {}
    /\ itemsToDelete = <<NameC, <<"c", "/", "c">>, <<"s", "/", "c">>>>

\* The entry does not lie inside a directory that cannot be listed.
Visible(p) == \A d \in unreadable : p = d \/ ~Beneath(p, d)

VisibleFolderTest(p) == Visible(p) /\ FolderTest(p)

VisibleTypeTest(p) == Visible(p) /\ TypeTest(p)

\* C19: a directory that cannot be listed is passed over: what lies outside
\* it, before and after it in the traversal, is still selected, nothing is
\* logged or put on the failed list by the traversal, and the exit code
\* depends on failed removals alone.
C19_UnreadableSkipped ==
    unreadable # {} =>
        /\ pc = "process" =>
              /\ failedDeletions = <<>>
              /\ log = <<>>
              /\ exitCode = -1
        /\ (Collected /\ ~IsSet(config.maxDepth)) =>
              /\ FoldersOnly => ItemSet = Candidates(VisibleFolderTest)
              /\ TypesOnly => ItemSet = Candidates(VisibleTypeTest)
        /\ (pc = "exited" /\ ConfigValid(config)) =>
              (exitCode = 1 <=> LogHas("failed"))
        /\ \A j \in 1..Len(log) :
              log[j].kind = "failed" => j > 1 /\ log[j - 1].kind = "remove"

C19_Witness ==
    /\ unreadable = {<<NameC>>}
    /\ FoldersOnly
    /\ ~IsSet(config.maxDepth)
    /\ pc = "exited"
    /\ exitCode = 0
    /\ itemsToDelete = <<NameC, <<"s", "/", "c">>>>
    /\ <<NameC, NameC>> \in DOMAIN fs0

\* The worklist item at k lies inside the worklist directory at j.
Nested(j, k) ==
    /\ SplitPath(itemsToDelete[j]) # SplitPath(itemsToDelete[k])
    /\ Beneath(SplitPath(itemsToDelete[k]), SplitPath(itemsToDelete[j]))
    /\ fs0[SplitPath(itemsToDelete[j])] = "dir"

\* The kinds of the terminal records logged for the item.
OutcomesOf(item) ==
    {log[n].kind : n \in {m \in 1..Len(log) : log[m].item = item /\ log[m].kind \in TerminalKinds}}

\* The directory at j was removed and the turn of the item at k has passed.
RemovedAbove(j, k) ==
    /\ ~config.dryRun
    /\ k < idx
    /\ InSeq(itemsToDelete[j], deletedItems)
    /\ Nested(j, k)

\* C22: a worklist directory comes before a worklist entry inside it; once
\* the directory has been removed the nested entry, at its turn, ends in the
\* not-found outcome, never in failed.
C22_NestedNotFound ==
    Collected =>
        \A j \in 1..Len(itemsToDelete) : \A k \in 1..Len(itemsToDelete) :
            /\ (pc = "process" /\ Nested(j, k)) => j < k
            /\ RemovedAbove(j, k) =>
                  /\ OutcomesOf(itemsToDelete[k]) = {"notfound"}
                  /\ ~InSeq(itemsToDelete[k], failedDeletions)

\* C22, amended: a worklist directory comes before a worklist entry inside
\* it; once the directory has been removed the nested entry is still asked
\* about when items are prompted for, ends as skipped when declined and in the
\* not-found outcome otherwise, and is on neither the failed nor the deleted list.
C22_NestedNotFoundOrSkipped ==
    Collected =>
        \A j \in 1..Len(itemsToDelete) : \A k \in 1..Len(itemsToDelete) :
            /\ (pc = "process" /\ Nested(j, k)) => j < k
            /\ RemovedAbove(j, k) =>
                  LET item == itemsToDelete[k]
                      declined == \E n \in 1..Len(log) :
                                     /\ log[n].kind = "prompt"
                                     /\ log[n].item = item
                                     /\ log[n].ans = "n"
                  IN  /\ OutcomesOf(item) = (IF declined THEN {"skipped"} ELSE {"notfound"})
                      /\ declined => config.interactive /\ ~config.force
                      /\ ~InSeq(item, failedDeletions)
                      /\ ~InSeq(item, deletedItems)
                      /\ SplitPath(item) \notin DOMAIN fs

C22_Witness ==
    /\ pc = "exited"
    /\ exitCode = 0
    /\ ~config.interactive
    /\ \E j \in 1..Len(itemsToDelete) : \E k \in 1..Len(itemsToDelete) :
          /\ RemovedAbove(j, k)
          /\ OutcomesOf(itemsToDelete[k]) = {"notfound"}

\* How many records of the given kinds the item has.
CountOf(item, kinds) ==
    Cardinality({n \in 1..Len(log) : log[n].item = item /\ log[n].kind \in kinds})

\* C23: unless the batch was declined, every worklist item ends with exactly
\* one terminal record, the items before the loop position have theirs and
\* the others none yet, and no item has more than one removal attempt.
C23_OneOutcomeEach ==
    Collected =>
        \A i \in 1..Len(itemsToDelete) :
            LET item == itemsToDelete[i] IN
            /\ CountOf(item, TerminalKinds) =
                  (IF pc # "process" /\ i < idx /\ ~LogHas("cancelled") THEN 1 ELSE 0)
            /\ CountOf(item, {"remove"}) <= 1
            /\ CountOf(item, {"remove"}) = CountOf(item, {"deleted", "failed"})
            /\ (ProcessReturned /\ ~LogHas("cancelled")) => i < idx

C23_Witness ==
    /\ pc = "exited"
    /\ Len(itemsToDelete) >= 3
    /\ LogHas("failed")
    /\ LogHas("deleted")
    /\ LogHas("skipped")
    /\ LogHas("notfound")

\* C25: in a single run the deleted and the failed list have no path in
\* common, hold worklist paths only, each at most once, and together are no
\* longer than the worklist, whose length is the total reported.
C25_TalliesWithinWorklist ==
    /\ \A i \in 1..Len(deletedItems) :
          /\ InSeq(deletedItems[i], itemsToDelete)
          /\ ~InSeq(deletedItems[i], failedDeletions)
          /\ \A j \in 1..Len(deletedItems) : deletedItems[i] = deletedItems[j] => i = j
    /\ \A i \in 1..Len(failedDeletions) :
          /\ InSeq(failedDeletions[i], itemsToDelete)
          /\ \A j \in 1..Len(failedDeletions) : failedDeletions[i] = failedDeletions[j] => i = j
    /\ getSummary.deleted + getSummary.failed <= getSummary.totalItems
    /\ getSummary.totalItems = Len(itemsToDelete)
    /\ getSummary.deleted = Len(deletedItems)
    /\ getSummary.failed = Len(failedDeletions)

C25_Witness ==
    /\ pc = "exited"
    /\ Len(deletedItems) >= 2
    /\ Len(failedDeletions) >= 1
    /\ Len(deletedItems) + Len(failedDeletions) < Len(itemsToDelete)

\* The entry is a worklist entry or lies inside a worklist directory.
Covered(p) ==
    \E i \in 1..Len(itemsToDelete) : Beneath(p, SplitPath(itemsToDelete[i]))

C26_State ==
    /\ \A p \in DOMAIN fs : p \in DOMAIN fs0 /\ fs[p] = fs0[p]
    /\ fs # fs0 => \A p \in (DOMAIN fs0) \ (DOMAIN fs) : Covered(p)
    /\ (pc \in {"validate", "collect", "process"} \/ idx <= 1) => fs = fs0

\* Only an iteration of the deletion loop changes the filesystem.
C26_Step == pc # "loop" => fs' = fs

\* C26: a run removes worklist entries and what lies inside worklist
\* directories, and nothing else; collecting the worklist and showing the
\* preview leave the filesystem as it is.
C26_Frame == []C26_State /\ [][C26_Step]_vars

C26_Witness ==
    /\ pc = "exited"
    /\ previewShown # <<>>
    /\ \E p \in DOMAIN fs0 : p \notin DOMAIN fs /\ ~InSeq(RelativePath(p), itemsToDelete)
    /\ \E p \in DOMAIN fs : ~Covered(p)

\* A second collect/process round on the same engine has returned.
SecondRunDone == round >= 1 /\ pc \in {"summary", "exited"}

\* C24: after a second collectItemsToDelete and processDeletions on the same
\* engine the deleted and failed tallies hold paths of the second worklist
\* only, and no more of them than that worklist has.
C24_RunScoped ==
    SecondRunDone =>
        /\ \A i \in 1..Len(deletedItems) : InSeq(deletedItems[i], itemsToDelete)
        /\ \A i \in 1..Len(failedDeletions) : InSeq(failedDeletions[i], itemsToDelete)
        /\ getSummary.deleted + getSummary.failed <= getSummary.totalItems
        /\ (pc = "exited" /\ exitCode = 1) =>
              \E i \in 1..Len(failedDeletions) :
                  SplitPath(failedDeletions[i]) \in DOMAIN fs

\* C21: the TypeScript engine does what the bash script does; for the same
\* tree, patterns, exclusions and depth limit the two collect the same entries
\* (the script prints them with a leading "./").
C21_SameSelectionAsScript ==
    Collected =>
        {FindPath(SplitPath(itemsToDelete[i])) : i \in 1..Len(itemsToDelete)}
            = collect_items_to_delete(fs0, config)

====
